---------------------------- MODULE Spec2Model ----------------------------
(***************************************************************************)
(* Model of src/barcode_to_tab.py: class BarcodeToTab.                     *)
(*                                                                         *)
(* Text is modelled as a sequence of one-character strings, so that the    *)
(* length of a line, the column of a character and the equality of two     *)
(* outputs are things the model checker computes.  A barcode is such a     *)
(* sequence too.  Python lists are 0-based and TLA+ sequences 1-based: the *)
(* Python element x[i] is the TLA+ element x[i + 1].                       *)
(***************************************************************************)
EXTENDS Integers, Sequences, FiniteSets, TLC

VARIABLES
    self,      \* the converter's attributes: root_note, root_fret, scale_mode, scale
    SCALES,    \* the class attribute BarcodeToTab.SCALES
    stdout,    \* the lines print has written to standard output, oldest first,
               \* that the reader of the stream has not consumed yet
    call,      \* the last call made on the converter by the sequential caller
    ret,       \* what that call produced
    frames     \* one activation of convert per thread (concurrent callers)

vars == <<self, SCALES, stdout, call, ret, frames>>

----------------------------------------------------------------------------
(* Bounds of the model.                                                    *)

\* longest barcode built from every combination of the characters of Alphabet
MaxLen == 2
\* length of the long barcode "012345678905012345..." (the example barcode
\* repeated)
MaxLong == 26
\* largest root_fret a converter is constructed with (the docstring says
\* 0-12; the constructor accepts any integer)
MaxRootFret == 21
\* longest note list handed directly to notes_to_tab
MaxNotes == 2
\* longest barcode a concurrent caller passes
MaxConcLen == 6

----------------------------------------------------------------------------
(* Characters.                                                             *)

\* The ten ASCII digits, in order: AsciiDigits[d + 1] is the character of d.
AsciiDigits == <<"0", "1", "2", "3", "4", "5", "6", "7", "8", "9">>

\* U+0663 ARABIC-INDIC DIGIT THREE: str.isdigit() is True and int() is 3.
ArabicThree == "U+0663"
\* U+00B2 SUPERSCRIPT TWO: str.isdigit() is True and int() raises ValueError.
SuperscriptTwo == "U+00B2"

\* The characters short barcodes are built from.
Alphabet == {"0", "7", "a", SuperscriptTwo}

\* str.isdigit(): characters with the Unicode property Numeric_Type=Digit or
\* Numeric_Type=Decimal.
isdigit(c) ==
    \/ \E d \in 1..10 : AsciiDigits[d] = c
    \/ c = ArabicThree
    \/ c = SuperscriptTwo

\* int(c) raises ValueError unless c is a decimal digit (Numeric_Type=Decimal).
int_raises(c) == ~ (\/ \E d \in 1..10 : AsciiDigits[d] = c
                    \/ c = ArabicThree)

\* int(c) for a character on which it does not raise.
int(c) ==
    IF c = ArabicThree THEN 3
    ELSE (CHOOSE d \in 1..10 : AsciiDigits[d] = c) - 1

\* str(n) for an integer n.
RECURSIVE str(_)
str(n) ==
    IF n < 0 THEN <<"-">> \o str(-n)
    ELSE IF n < 10 THEN <<AsciiDigits[n + 1]>>
    ELSE str(n \div 10) \o <<AsciiDigits[(n % 10) + 1]>>

\* A for loop: the loop's variables after body has run for i = lo, lo + 1,
\* ..., hi in this order, from the values st.  The range is split in two
\* halves run one after the other, and the first half's result is compared
\* with st so that it is computed before the second half starts: both only
\* keep the evaluation shallow, the value is that of running the body hi - lo
\* + 1 times in a row.
RECURSIVE for_loop(_, _, _, _)
for_loop(body(_, _), st, lo, hi) ==
    IF lo > hi THEN st
    ELSE IF lo = hi THEN body(st, lo)
    ELSE LET mid == (lo + hi) \div 2
             half == for_loop(body, st, lo, mid)
         IN  IF half = st THEN for_loop(body, st, mid + 1, hi)
             ELSE for_loop(body, half, mid + 1, hi)

----------------------------------------------------------------------------
(* ScaleMode and the scale table.                                          *)

ScaleMode ==
    {"MINOR_PENTATONIC", "NATURAL_MINOR", "HARMONIC_MINOR", "CHROMATIC", "POWER_CHORD"}

\* ScaleMode.<X>.value
value(mode) ==
    CASE mode = "MINOR_PENTATONIC" ->
           <<"m", "i", "n", "o", "r", "_", "p", "e", "n", "t", "a", "t", "o", "n", "i", "c">>
      [] mode = "NATURAL_MINOR" ->
           <<"n", "a", "t", "u", "r", "a", "l", "_", "m", "i", "n", "o", "r">>
      [] mode = "HARMONIC_MINOR" ->
           <<"h", "a", "r", "m", "o", "n", "i", "c", "_", "m", "i", "n", "o", "r">>
      [] mode = "CHROMATIC" ->
           <<"c", "h", "r", "o", "m", "a", "t", "i", "c">>
      [] mode = "POWER_CHORD" ->
           <<"p", "o", "w", "e", "r", "_", "c", "h", "o", "r", "d">>

\* The value BarcodeToTab.SCALES is bound to when the class is created.
ScaleTable ==
    [mode \in ScaleMode |->
        CASE mode = "MINOR_PENTATONIC" -> <<0, 3, 5, 7, 10>>
          [] mode = "NATURAL_MINOR"    -> <<0, 2, 3, 5, 7, 8, 10>>
          [] mode = "HARMONIC_MINOR"   -> <<0, 2, 3, 5, 7, 8, 11>>
          [] mode = "CHROMATIC"        -> <<0, 1, 2, 3, 4, 5, 6, 7, 8, 9, 10, 11, 12>>
          [] mode = "POWER_CHORD"      -> <<0, 7>>]

\* BarcodeToTab.__init__: the attributes of a freshly constructed converter.
NewConverter(table, root_note, root_fret, scale_mode) ==
    [root_note  |-> root_note,
     root_fret  |-> root_fret,
     scale_mode |-> scale_mode,
     scale      |-> table[scale_mode]]

\* GuitarNote(string, fret, duration)
GuitarNote(string, fret, duration) ==
    [string |-> string, fret |-> fret, duration |-> duration]

----------------------------------------------------------------------------
(* The digits of a barcode: [int(c) for c in barcode if c.isdigit()].      *)
(* The comprehension raises at the first character that isdigit accepts    *)
(* and int rejects.                                                        *)

\* One step of the comprehension, for the character c: st is the list so
\* far and whether int has raised.
extract_digit(st, c) ==
    IF st.raised THEN st
    ELSE IF ~ isdigit(c) THEN st
    ELSE IF int_raises(c) THEN [raised |-> TRUE, digits |-> <<>>]
    ELSE [raised |-> FALSE, digits |-> Append(st.digits, int(c))]

digits_of(barcode) ==
    for_loop(LAMBDA st, k : extract_digit(st, barcode[k]),
             [raised |-> FALSE, digits |-> <<>>], 1, Len(barcode))

----------------------------------------------------------------------------
(* barcode_to_notes (the melodic generator).                               *)

\* scale_degree = digit % len(self.scale)
scale_degree(slf, digit) == digit % Len(slf.scale)

\* fret = self.root_fret + self.scale[scale_degree]
scale_fret(slf, digit) == slf.root_fret + slf.scale[scale_degree(slf, digit) + 1]

\* normalize_fret with the test "fret > 20".
RECURSIVE normalize_fret_above_20(_)
normalize_fret_above_20(fret) ==
    IF fret > 20 THEN normalize_fret_above_20(fret - 12) ELSE fret

\* normalize_fret with "if" for "while": 12 is subtracted once at most.
normalize_fret_once(fret) == IF fret > 19 THEN fret - 12 ELSE fret

\* while fret > 19: fret -= 12
RECURSIVE normalize_fret(_)
normalize_fret(fret) == IF fret > 19 THEN normalize_fret(fret - 12) ELSE fret

\* advance_string without the test "i > 0": the string changes at i = 0 too.
advance_string_at_zero(i, current_string) ==
    IF i % 4 = 0 THEN (current_string + 1) % 6 ELSE current_string

\* if i > 0 and i % 4 == 0: current_string = (current_string + 1) % 6
advance_string(i, current_string) ==
    IF i > 0 /\ i % 4 = 0 THEN (current_string + 1) % 6 ELSE current_string

\* duration = 2 if digit in [0, 5] else 1
melodic_duration(digit) == IF digit \in {0, 5} THEN 2 ELSE 1

\* One iteration of the loop, for the digit at index i (0-based), from the
\* loop's variables st = [current_string, notes] to their values afterwards.
melodic_body(slf, st, i, digit) ==
    LET fret == normalize_fret(scale_fret(slf, digit))
        cur  == advance_string(i, st.current_string)
    IN  [current_string |-> cur,
         notes |-> Append(st.notes, GuitarNote(cur, fret, melodic_duration(digit)))]

\* for i, digit in enumerate(digits), from current_string = 0 and notes = [].
melodic_loop(slf, digits) ==
    for_loop(LAMBDA st, i : melodic_body(slf, st, i, digits[i + 1]),
             [current_string |-> 0, notes |-> <<>>], 0, Len(digits) - 1)

\* The line barcode_to_notes prints when the barcode has no digits.
NoDigitsMessage ==
    <<"N", "o", " ", "d", "i", "g", "i", "t", "s", " ", "f", "o", "u", "n", "d",
      " ", "i", "n", " ", "b", "a", "r", "c", "o", "d", "e">>

\* barcode_to_notes(self, barcode): whether it raised, the notes it returned
\* and the lines it printed.
barcode_to_notes(slf, barcode) ==
    LET e == digits_of(barcode)
    IN  IF e.raised
          THEN [raised |-> TRUE, notes |-> <<>>, printed |-> <<>>]
        ELSE IF e.digits = <<>>
          THEN [raised |-> FALSE, notes |-> <<>>, printed |-> <<NoDigitsMessage>>]
        ELSE [raised |-> FALSE,
              notes |-> melodic_loop(slf, e.digits).notes,
              printed |-> <<>>]

----------------------------------------------------------------------------
(* generate_power_chord_riff.                                              *)

\* root_fret = (digit % 13)
power_root_fret(digit) == digit % 13

\* One iteration of the loop: notes with root and fifth appended, and the
\* palm muted pair when the digit is 0 or 5.
power_body(notes, digit) ==
    LET root_fret == power_root_fret(digit)
        chord == << GuitarNote(0, root_fret, 2), GuitarNote(1, root_fret + 2, 2) >>
    IN  IF digit \in {0, 5}
          THEN notes \o chord
                     \o << GuitarNote(0, root_fret, 1), GuitarNote(1, root_fret + 2, 1) >>
          ELSE notes \o chord

\* for i, digit in enumerate(digits), from notes = [].
power_loop(digits) ==
    for_loop(LAMBDA notes, i : power_body(notes, digits[i + 1]),
             <<>>, 0, Len(digits) - 1)

generate_power_chord_riff(slf, barcode) ==
    LET e == digits_of(barcode)
    IN  IF e.raised
          THEN [raised |-> TRUE, notes |-> <<>>, printed |-> <<>>]
        ELSE IF e.digits = <<>>
          THEN [raised |-> FALSE, notes |-> <<>>, printed |-> <<>>]
        ELSE [raised |-> FALSE, notes |-> power_loop(e.digits), printed |-> <<>>]

----------------------------------------------------------------------------
(* notes_to_tab.                                                           *)

\* The text returned for an empty note list.
NoNotesText ==
    <<"N", "o", " ", "n", "o", "t", "e", "s", " ", "t", "o", " ", "d", "i", "s",
      "p", "l", "a", "y">>

\* The default value of the title parameter.
DefaultTitle == <<"B", "a", "r", "c", "o", "d", "e", " ", "R", "i", "f", "f">>

\* sum(note.duration * 2 for note in notes)
sum_widths(notes) ==
    for_loop(LAMBDA acc, k : acc + notes[k].duration * 2, 0, 1, Len(notes))

\* total_length = sum(note.duration * 2 for note in notes) + 2
total_length(notes) == sum_widths(notes) + 2

\* [ch for _ in range(n)], and ch * n
repeat(ch, n) == for_loop(LAMBDA acc, i : Append(acc, ch), <<>>, 1, n)

\* tab_lines = [['-' for _ in range(total_length)] for _ in range(6)]
empty_tab(total) ==
    for_loop(LAMBDA rows, r : Append(rows, repeat("-", total)), <<>>, 1, 6)

\* display_row without the reversal: string 0 on the top row.
display_row_not_reversed(note) == note.string

\* string_idx = 5 - note.string
display_row(note) == 5 - note.string

\* if position + char_idx < total_length
fits(position, char_idx, total) == position + char_idx < total

\* advance_position with one column per unit of duration.
advance_position_by_duration(position, note) == position + note.duration

\* position += note.duration * 2
advance_position(position, note) == position + note.duration * 2

\* One iteration of the inner loop, for character char_idx of the fret text
\* of the note at index k: the character is written at column
\* position + char_idx of row string_idx when that column fits.
\* st.tab_lines is the grid; st.writes logs every execution of the test, in
\* order: the cell, the character, the note and whether it was written.
place_char(st, k, string_idx, fret_str, char_idx, total) ==
    LET col == st.position + char_idx
        ok  == fits(st.position, char_idx, total)
        ch  == fret_str[char_idx + 1]
        w   == [note |-> k, row |-> string_idx, col |-> col,
                char |-> ch, written |-> ok]
    IN  [st EXCEPT
           !.tab_lines = IF ok THEN [@ EXCEPT ![string_idx + 1] =
                                                 [@ EXCEPT ![col + 1] = ch]]
                         ELSE @,
           !.writes = Append(@, w)]

\* One iteration of "for note in notes", for the note at index k (0-based),
\* from the loop's variables st = [tab_lines, position] (and the log) to
\* their values afterwards.
place_note(st, k, note, total) ==
    LET fret_str == str(note.fret)
        string_idx == display_row(note)
        placed == for_loop(LAMBDA s, char_idx :
                               place_char(s, k, string_idx, fret_str, char_idx, total),
                           st, 0, Len(fret_str) - 1)
    IN  [placed EXCEPT !.position = advance_position(@, note)]

\* for note in notes, from position = 1 and the empty grid.
place_notes(notes, total) ==
    for_loop(LAMBDA st, k : place_note(st, k, notes[k + 1], total),
             [tab_lines |-> empty_tab(total), writes |-> <<>>, position |-> 1],
             0, Len(notes) - 1)

\* tuning_labels = ['e|', 'B|', 'G|', 'D|', 'A|', 'E|']
tuning_labels ==
    << <<"e", "|">>, <<"B", "|">>, <<"G", "|">>, <<"D", "|">>, <<"A", "|">>, <<"E", "|">> >>

\* "=" * 60
separator == repeat("=", 60)

\* '\n'.join(output)
RECURSIVE join(_)
join(output) ==
    IF Len(output) = 0 THEN <<>>
    ELSE IF Len(output) = 1 THEN output[1]
    ELSE output[1] \o <<"\n">> \o join(Tail(output))

\* The list output: title, scale line, rule, the six tab lines, rule.
build_output(slf, tab_lines, title) ==
    << <<"\n">> \o title,
       <<"S", "c", "a", "l", "e", ":", " ">> \o value(slf.scale_mode)
           \o <<" ", "i", "n", " ">> \o <<slf.root_note>>,
       separator >>
    \o for_loop(LAMBDA out, i :
                     Append(out, tuning_labels[i] \o tab_lines[i] \o <<"|">>),
                 <<>>, 1, 6)
    \o << separator >>

\* notes_to_tab without the test "if not notes": an empty list is rendered
\* as a grid like any other.
notes_to_tab_unguarded(slf, notes, title) ==
    LET total == total_length(notes)
        st == place_notes(notes, total)
    IN  [text |-> join(build_output(slf, st.tab_lines, title)),
         tab_lines |-> st.tab_lines,
         writes |-> st.writes]

\* notes_to_tab(self, notes, title): the text returned, with the grid and
\* the log of the placement loop.
notes_to_tab(slf, notes, title) ==
    IF notes = <<>>
      THEN [text |-> NoNotesText, tab_lines |-> <<>>, writes |-> <<>>]
    ELSE LET total == total_length(notes)
             st == place_notes(notes, total)
         IN  [text |-> join(build_output(slf, st.tab_lines, title)),
              tab_lines |-> st.tab_lines,
              writes |-> st.writes]

----------------------------------------------------------------------------
(* convert.                                                                *)

\* f"Power Chord Riff - {barcode}" / f"Barcode Riff - {barcode}"
convert_title(barcode, use_power_chords) ==
    IF use_power_chords
      THEN <<"P", "o", "w", "e", "r", " ", "C", "h", "o", "r", "d", " ",
             "R", "i", "f", "f", " ", "-", " ">> \o barcode
      ELSE <<"B", "a", "r", "c", "o", "d", "e", " ", "R", "i", "f", "f",
             " ", "-", " ">> \o barcode

\* The generator convert selects.
convert_notes(slf, barcode, use_power_chords) ==
    IF use_power_chords THEN generate_power_chord_riff(slf, barcode)
    ELSE barcode_to_notes(slf, barcode)

\* convert(self, barcode, use_power_chords): an exception raised by the
\* generator propagates; otherwise the text of notes_to_tab is returned.
convert(slf, barcode, use_power_chords) ==
    LET g == convert_notes(slf, barcode, use_power_chords)
    IN  IF g.raised
          THEN [raised |-> TRUE, notes |-> <<>>, text |-> <<>>,
                writes |-> <<>>, printed |-> g.printed]
        ELSE LET t == notes_to_tab(slf, g.notes, convert_title(barcode, use_power_chords))
             IN  [raised |-> FALSE, notes |-> g.notes, text |-> t.text,
                  writes |-> t.writes, printed |-> g.printed]

----------------------------------------------------------------------------
(* The inputs the callers draw from.                                       *)

\* The barcode of the usage examples, "012345678905".
ExampleBarcode == <<"0", "1", "2", "3", "4", "5", "6", "7", "8", "9", "0", "5">>

\* The first n characters of the example barcode repeated.
LongBarcode(n) ==
    for_loop(LAMBDA acc, i : Append(acc, ExampleBarcode[((i - 1) % 12) + 1]),
             <<>>, 1, n)

ShortBarcodes == UNION {[1..n -> Alphabet] : n \in 0..MaxLen}

\* Barcodes with the digit 5, with a decimal digit that is not ASCII, with
\* separators, and with more than 24 digits.
OtherBarcodes ==
    { <<"5">>, <<ArabicThree>>, <<"9", "-", ArabicThree, " ", "5">>,
      ExampleBarcode, LongBarcode(MaxLong) }

Barcodes == ShortBarcodes \cup OtherBarcodes

\* Notes a caller of notes_to_tab builds by hand: lowest and highest string,
\* frets of one and of four characters, both durations.
HandNotes ==
    { GuitarNote(0, 7, 1), GuitarNote(5, 1000, 1),
      GuitarNote(0, 1000, 2), GuitarNote(5, 7, 2) }

NoteLists == UNION {[1..n -> HandNotes] : n \in 0..MaxNotes}

RootNotes == {"E"}

Converters ==
    {NewConverter(ScaleTable, n, f, m) :
        n \in RootNotes, f \in 0..MaxRootFret, m \in ScaleMode}

----------------------------------------------------------------------------
(* The sequential caller: one converter, one call at a time.               *)

NoCall ==
    [op |-> "none", barcode |-> <<>>, use_power_chords |-> FALSE,
     notes |-> <<>>, title |-> <<>>]

NoRet ==
    [raised |-> FALSE, notes |-> <<>>, text |-> <<>>, writes |-> <<>>]

\* The threads that call convert on the one converter.
Threads == {1, 2}

\* A thread that is not inside convert.  A frame holds the arguments and the
\* local variables of convert and of the methods it calls: barcode and
\* use_power_chords; digits, i, current_string and notes of the generator;
\* title; total_length, tab_lines, position and the index k of the current
\* note of notes_to_tab (with the log of its writes); the text returned.
IdleFrame ==
    [pc |-> "idle", barcode |-> <<>>, use_power_chords |-> FALSE,
     digits |-> <<>>, i |-> 0, current_string |-> 0, notes |-> <<>>,
     title |-> <<>>, total_length |-> 0, tab_lines |-> <<>>, k |-> 0,
     position |-> 0, writes |-> <<>>, text |-> <<>>]

Init ==
    /\ SCALES = ScaleTable
    /\ self \in Converters
    /\ stdout = <<>>
    /\ call = NoCall
    /\ ret = NoRet
    /\ frames = [t \in Threads |-> IdleFrame]

\* notes = converter.barcode_to_notes(barcode)
CallBarcodeToNotes ==
    /\ call.op = "none"
    /\ \E barcode \in Barcodes :
         LET r == barcode_to_notes(self, barcode)
         IN  /\ call' = [NoCall EXCEPT !.op = "barcode_to_notes", !.barcode = barcode]
             /\ ret' = [NoRet EXCEPT !.raised = r.raised, !.notes = r.notes]
             /\ stdout' = stdout \o r.printed
    /\ UNCHANGED <<self, SCALES, frames>>

\* notes = converter.generate_power_chord_riff(barcode)
CallGeneratePowerChordRiff ==
    /\ call.op = "none"
    /\ \E barcode \in Barcodes :
         LET r == generate_power_chord_riff(self, barcode)
         IN  /\ call' = [NoCall EXCEPT !.op = "generate_power_chord_riff",
                                       !.barcode = barcode]
             /\ ret' = [NoRet EXCEPT !.raised = r.raised, !.notes = r.notes]
             /\ stdout' = stdout \o r.printed
    /\ UNCHANGED <<self, SCALES, frames>>

\* tab = converter.notes_to_tab(notes)
CallNotesToTab ==
    /\ call.op = "none"
    /\ \E notes \in NoteLists :
         LET r == notes_to_tab(self, notes, DefaultTitle)
         IN  /\ call' = [NoCall EXCEPT !.op = "notes_to_tab", !.notes = notes,
                                       !.title = DefaultTitle]
             /\ ret' = [NoRet EXCEPT !.notes = notes, !.text = r.text,
                                     !.writes = r.writes]
    /\ UNCHANGED <<self, SCALES, stdout, frames>>

\* tab = converter.convert(barcode, use_power_chords)
CallConvert ==
    /\ call.op = "none"
    /\ \E barcode \in Barcodes, use_power_chords \in BOOLEAN :
         LET r == convert(self, barcode, use_power_chords)
         IN  /\ call' = [NoCall EXCEPT !.op = "convert", !.barcode = barcode,
                                       !.use_power_chords = use_power_chords,
                                       !.title = convert_title(barcode, use_power_chords)]
             /\ ret' = [raised |-> r.raised, notes |-> r.notes, text |-> r.text,
                        writes |-> r.writes]
             /\ stdout' = stdout \o r.printed
    /\ UNCHANGED <<self, SCALES, frames>>

\* The caller is done with the result and ready for its next call; what
\* was printed has been read.
NextCall ==
    /\ call.op # "none"
    /\ call' = NoCall
    /\ ret' = NoRet
    /\ stdout' = <<>>
    /\ UNCHANGED <<self, SCALES, frames>>

Next ==
    \/ CallBarcodeToNotes
    \/ CallGeneratePowerChordRiff
    \/ CallNotesToTab
    \/ CallConvert
    \/ NextCall

Spec == Init /\ [][Next]_vars

----------------------------------------------------------------------------
(* Concurrent callers: each thread of Threads calls convert on the one     *)
(* converter, and the threads are interleaved between the statements of    *)
(* the loops.  Only self, SCALES and stdout are shared; a frame belongs to *)
(* its thread.                                                             *)

\* The barcodes concurrent callers pass.
ConcBarcodes ==
    { <<>>, <<SuperscriptTwo>>, <<"5">>, LongBarcode(MaxConcLen) }

\* The converters concurrent callers share.
ConcConverters ==
    {NewConverter(ScaleTable, "E", f, m) : f \in {0, 12}, m \in ScaleMode}

InitConc ==
    /\ SCALES = ScaleTable
    /\ self \in ConcConverters
    /\ stdout = <<>>
    /\ call = NoCall
    /\ ret = NoRet
    /\ frames = [t \in Threads |-> IdleFrame]

\* Thread t calls convert(barcode, use_power_chords).
Invoke(t) ==
    /\ frames[t].pc = "idle"
    /\ \E barcode \in ConcBarcodes, use_power_chords \in BOOLEAN :
         frames' = [frames EXCEPT ![t] =
                       [IdleFrame EXCEPT !.pc = "extract",
                                         !.barcode = barcode,
                                         !.use_power_chords = use_power_chords]]
    /\ UNCHANGED <<self, SCALES, stdout, call, ret>>

\* The generator builds digits: the comprehension raises, or the list is
\* empty and the generator returns no notes (the melodic one after printing),
\* or the loop starts (the melodic one with current_string = 0).
Extract(t) ==
    /\ frames[t].pc = "extract"
    /\ LET f == frames[t]
           e == digits_of(f.barcode)
       IN  IF e.raised
             THEN /\ frames' = [frames EXCEPT ![t].pc = "raised"]
                  /\ stdout' = stdout
           ELSE IF e.digits = <<>>
             THEN /\ frames' = [frames EXCEPT ![t].pc = "title", ![t].notes = <<>>]
                  /\ stdout' = IF f.use_power_chords THEN stdout
                               ELSE Append(stdout, NoDigitsMessage)
           ELSE /\ frames' = [frames EXCEPT
                                ![t].pc = IF f.use_power_chords THEN "power_loop"
                                          ELSE "melodic_loop",
                                ![t].digits = e.digits,
                                ![t].i = 0,
                                ![t].current_string = 0,
                                ![t].notes = <<>>]
                /\ stdout' = stdout
    /\ UNCHANGED <<self, SCALES, call, ret>>

\* MelodicStep with current_string kept on the converter (self.current_string)
\* instead of in a local variable: every activation reads and writes the
\* same cursor.
MelodicStepSharedCursor(t) ==
    /\ frames[t].pc = "melodic_loop"
    /\ LET f == frames[t]
       IN  IF f.i < Len(f.digits)
             THEN LET st == melodic_body(self,
                                         [current_string |-> f.current_string,
                                          notes |-> f.notes],
                                         f.i, f.digits[f.i + 1])
                  IN  frames' = [u \in Threads |->
                                   IF u = t
                                     THEN [f EXCEPT
                                             !.current_string = st.current_string,
                                             !.notes = st.notes,
                                             !.i = f.i + 1]
                                     ELSE [frames[u] EXCEPT
                                             !.current_string = st.current_string]]
             ELSE frames' = [frames EXCEPT ![t].pc = "title"]
    /\ UNCHANGED <<self, SCALES, stdout, call, ret>>

\* One iteration of the loop of barcode_to_notes, or its end.
MelodicStep(t) ==
    /\ frames[t].pc = "melodic_loop"
    /\ LET f == frames[t]
       IN  IF f.i < Len(f.digits)
             THEN LET st == melodic_body(self,
                                         [current_string |-> f.current_string,
                                          notes |-> f.notes],
                                         f.i, f.digits[f.i + 1])
                  IN  frames' = [frames EXCEPT
                                   ![t].current_string = st.current_string,
                                   ![t].notes = st.notes,
                                   ![t].i = f.i + 1]
             ELSE frames' = [frames EXCEPT ![t].pc = "title"]
    /\ UNCHANGED <<self, SCALES, stdout, call, ret>>

\* One iteration of the loop of generate_power_chord_riff, or its end.
PowerStep(t) ==
    /\ frames[t].pc = "power_loop"
    /\ LET f == frames[t]
       IN  IF f.i < Len(f.digits)
             THEN frames' = [frames EXCEPT
                               ![t].notes = power_body(f.notes, f.digits[f.i + 1]),
                               ![t].i = f.i + 1]
             ELSE frames' = [frames EXCEPT ![t].pc = "title"]
    /\ UNCHANGED <<self, SCALES, stdout, call, ret>>

\* convert sets title and calls notes_to_tab, which returns the placeholder
\* for an empty list and otherwise allocates the grid.
StartTab(t) ==
    /\ frames[t].pc = "title"
    /\ LET f == frames[t]
           title == convert_title(f.barcode, f.use_power_chords)
       IN  IF f.notes = <<>>
             THEN frames' = [frames EXCEPT ![t].pc = "returned",
                                           ![t].title = title,
                                           ![t].text = NoNotesText]
             ELSE frames' = [frames EXCEPT
                               ![t].pc = "place_notes",
                               ![t].title = title,
                               ![t].total_length = total_length(f.notes),
                               ![t].tab_lines = empty_tab(total_length(f.notes)),
                               ![t].position = 1,
                               ![t].k = 0]
    /\ UNCHANGED <<self, SCALES, stdout, call, ret>>

\* One iteration of the placement loop of notes_to_tab, or, after the last,
\* the assembly of the text and the return.
PlaceStep(t) ==
    /\ frames[t].pc = "place_notes"
    /\ LET f == frames[t]
       IN  IF f.k < Len(f.notes)
             THEN LET st == place_note([tab_lines |-> f.tab_lines,
                                        writes |-> f.writes,
                                        position |-> f.position],
                                       f.k, f.notes[f.k + 1], f.total_length)
                  IN  frames' = [frames EXCEPT
                                   ![t].tab_lines = st.tab_lines,
                                   ![t].writes = st.writes,
                                   ![t].position = st.position,
                                   ![t].k = f.k + 1]
             ELSE frames' = [frames EXCEPT
                               ![t].pc = "returned",
                               ![t].text = join(build_output(self, f.tab_lines, f.title))]
    /\ UNCHANGED <<self, SCALES, stdout, call, ret>>

\* The caller has the result (or the exception) of its call; what was
\* printed has been read.
Collect(t) ==
    /\ frames[t].pc \in {"returned", "raised"}
    /\ frames' = [frames EXCEPT ![t] = IdleFrame]
    /\ stdout' = <<>>
    /\ UNCHANGED <<self, SCALES, call, ret>>

NextConc ==
    \E t \in Threads :
        \/ Invoke(t)
        \/ Extract(t)
        \/ MelodicStep(t)
        \/ PowerStep(t)
        \/ StartTab(t)
        \/ PlaceStep(t)
        \/ Collect(t)

SpecConc == InitConc /\ [][NextConc]_vars

----------------------------------------------------------------------------
(* Properties of the generators.                                           *)

\* The digit characters of a barcode, in order.
DigitChars(barcode) == SelectSeq(barcode, isdigit)

\* The value of a digit character (U+00B2 is the digit 2).
DigitValue(c) == IF c = SuperscriptTwo THEN 2 ELSE int(c)

\* The last call was the melodic generator, directly or through convert.
Melodic ==
    \/ call.op = "barcode_to_notes"
    \/ call.op = "convert" /\ ~ call.use_power_chords

\* C1: convert, barcode_to_notes and generate_power_chord_riff return a value
\* and never raise, whatever the input string.
C1_NeverRaises ==
    call.op \in {"convert", "barcode_to_notes", "generate_power_chord_riff"}
        => ~ ret.raised

\* C2: barcode_to_notes returns one note per digit character, in order, the
\* i-th note with duration 2 if the i-th digit is 0 or 5 and 1 otherwise.
C2_OneNotePerDigit ==
    call.op = "barcode_to_notes" =>
        LET ds == DigitChars(call.barcode)
        IN  /\ ~ ret.raised
            /\ Len(ret.notes) = Len(ds)
            /\ \A i \in 1..Len(ds) :
                 ret.notes[i].duration = (IF DigitValue(ds[i]) \in {0, 5} THEN 2 ELSE 1)

\* The group of notes the claim C3 gives for one digit d.
C3_Group(d) ==
    << [string |-> 0, fret |-> d % 13, duration |-> 2],
       [string |-> 1, fret |-> (d % 13) + 2, duration |-> 2] >>
    \o (IF d \in {0, 5}
          THEN << [string |-> 0, fret |-> d % 13, duration |-> 1],
                  [string |-> 1, fret |-> (d % 13) + 2, duration |-> 1] >>
          ELSE << >>)

\* The concatenation of the groups of the digit characters ds.
C3_Groups(ds) ==
    for_loop(LAMBDA acc, i : acc \o C3_Group(DigitValue(ds[i])), <<>>, 1, Len(ds))

\* C3: generate_power_chord_riff returns the concatenation, in digit order,
\* of the per-digit groups, between 2n and 4n notes for n digits.
C3_PowerChordGroups ==
    call.op = "generate_power_chord_riff" =>
        LET ds == DigitChars(call.barcode)
        IN  /\ ~ ret.raised
            /\ ret.notes = C3_Groups(ds)
            /\ Len(ret.notes) >= 2 * Len(ds)
            /\ Len(ret.notes) <= 4 * Len(ds)

\* C4: in the output of the melodic generator, the note at index i (0-based)
\* is on string (i div 4) mod 6: notes 0..3 on string 0, note 4 on string 1,
\* and back to string 0 at note 24.
C4_StringOfNote ==
    (Melodic /\ ~ ret.raised) =>
        \A i \in 0..(Len(ret.notes) - 1) :
            /\ ret.notes[i + 1].string = (i \div 4) % 6
            /\ ret.notes[i + 1].string \in 0..5

\* A melodic call has returned more than 24 notes, and note 24 is back on
\* string 0 after note 23 on string 5.
C4_Witness ==
    /\ call.op = "barcode_to_notes"
    /\ Len(ret.notes) > 24
    /\ ret.notes[24].string = 5
    /\ ret.notes[25].string = 0
    /\ ret.notes[4].string = 0
    /\ ret.notes[5].string = 1

\* The fret the claims C5 and C9 speak of before the loop: root_fret plus
\* the interval of the digit's scale degree.
RawFret(d) == self.root_fret + SCALES[self.scale_mode][(d % Len(SCALES[self.scale_mode])) + 1]

\* f reduced by 12 while it is greater than 19: f itself up to 19, else the
\* number of 8..19 that differs from f by a multiple of 12.
Reduced(f) == IF f <= 19 THEN f ELSE 8 + ((f - 8) % 12)

\* C5: with root_fret in 0..12, the fret of every melodic note is root_fret
\* plus the interval of its digit, reduced by 12 while greater than 19, and
\* lies in 0..19.
C5_FretInRange ==
    (Melodic /\ ~ ret.raised /\ self.root_fret \in 0..12) =>
        LET ds == DigitChars(call.barcode)
        IN  \A i \in 1..Len(ret.notes) :
              /\ ret.notes[i].fret = Reduced(RawFret(DigitValue(ds[i])))
              /\ ret.notes[i].fret >= 0
              /\ ret.notes[i].fret <= 19

\* With root_fret 12, a melodic call returned a note the loop brought down
\* from above 19 and a note it left alone, over all ten digits.
C5_Witness ==
    /\ call.op = "barcode_to_notes"
    /\ self.root_fret = 12
    /\ ~ ret.raised
    /\ LET ds == DigitChars(call.barcode)
       IN  /\ \A d \in 0..9 : \E i \in 1..Len(ds) : DigitValue(ds[i]) = d
           /\ \E i \in 1..Len(ds) :
                /\ RawFret(DigitValue(ds[i])) > 19
                /\ ret.notes[i].fret = RawFret(DigitValue(ds[i])) - 12
           /\ \E i \in 1..Len(ds) : ret.notes[i].fret = 12

\* The placeholder text, spelled out character by character.
C6_Placeholder ==
    <<"N", "o", " ", "n", "o", "t", "e", "s", " ", "t", "o", " ", "d", "i", "s",
      "p", "l", "a", "y">>

\* C6: a barcode without digit characters gives no notes from either
\* generator, and convert returns exactly the text "No notes to display",
\* with use_power_chords both true and false.
C6_NoDigits ==
    (/\ call.op \in {"convert", "barcode_to_notes", "generate_power_chord_riff"}
     /\ DigitChars(call.barcode) = <<>>)
        => /\ ~ ret.raised
           /\ ret.notes = <<>>
           /\ call.op = "convert" => ret.text = C6_Placeholder

\* convert has returned for a barcode of separators only, in power chord mode.
C6_Witness ==
    /\ call.op = "convert"
    /\ call.use_power_chords
    /\ call.barcode = <<"a", "a">>
    /\ ret.text = C6_Placeholder

\* The same, in melodic mode.
C6_WitnessMelodic ==
    /\ call.op = "convert"
    /\ ~ call.use_power_chords
    /\ call.barcode = <<>>
    /\ ret.text = C6_Placeholder

\* C9, as claimed: with root_fret greater than 12, a melodic call over all
\* ten digits returns some note whose fret is still above 19.
C9_MayExceed19 ==
    (/\ call.op = "barcode_to_notes"
     /\ ~ ret.raised
     /\ self.root_fret > 12
     /\ \A d \in 0..9 : \E i \in 1..Len(call.barcode) : call.barcode[i] = AsciiDigits[d + 1])
        => \E i \in 1..Len(ret.notes) : ret.notes[i].fret > 19

\* C9, amended: with root_fret greater than 12 too, the fret of every
\* melodic note is at most 19 after the loop (and at least 8 when the loop
\* subtracted).
C9_FullyClamped ==
    (Melodic /\ ~ ret.raised /\ self.root_fret > 12) =>
        LET ds == DigitChars(call.barcode)
        IN  \A i \in 1..Len(ret.notes) :
              /\ ret.notes[i].fret <= 19
              /\ RawFret(DigitValue(ds[i])) > 19 => ret.notes[i].fret >= 8

\* With root_fret greater than 12, a melodic call returned a note from which
\* the loop subtracted 12 twice.
C9_Witness ==
    /\ call.op = "barcode_to_notes"
    /\ self.root_fret > 12
    /\ ~ ret.raised
    /\ LET ds == DigitChars(call.barcode)
       IN  \E i \in 1..Len(ret.notes) :
              /\ RawFret(DigitValue(ds[i])) > 31
              /\ ret.notes[i].fret = RawFret(DigitValue(ds[i])) - 24

----------------------------------------------------------------------------
(* Properties of the rendered text.                                        *)

\* The positions of the line breaks of a text.
Newlines(text) == {p \in 1..Len(text) : text[p] = "\n"}

\* The position of the j-th line break of a text (j = 1 for the first).
Newline(text, j) ==
    CHOOSE p \in Newlines(text) : Cardinality({q \in Newlines(text) : q < p}) = j - 1

\* The tab line of display row r (0 at the top) of a rendered text, label
\* and closing bar included: the text between line breaks 4 + r and 5 + r
\* (the title line starts with a line break of its own).
TabLine(text, r) == SubSeq(text, Newline(text, 4 + r) + 1, Newline(text, 5 + r) - 1)

\* The six tab lines of a rendered text, top to bottom.
TabLines(text) ==
    << TabLine(text, 0), TabLine(text, 1), TabLine(text, 2),
       TabLine(text, 3), TabLine(text, 4), TabLine(text, 5) >>

\* The cell at column c (0-based) of display row r (0 at the top) of the tab
\* lines rows: the label takes the first two characters of a tab line.
Cell(rows, r, c) == rows[r + 1][c + 3]

\* The labels of the display rows, top to bottom.
RowLabels == <<"e", "B", "G", "D", "A", "E">>

\* Start columns: StartColumns(notes)[k + 1] = 1 + the sum of 2 * duration
\* over the notes before the note at index k.
StartColumns(notes) ==
    for_loop(LAMBDA acc, k :
                 Append(acc, IF k = 1 THEN 1
                             ELSE acc[k - 1] + 2 * notes[k - 1].duration),
             <<>>, 1, Len(notes))

\* 2 + the sum of 2 * duration over all the notes.
TabWidth(notes) ==
    LET starts == StartColumns(notes)
        n == Len(notes)
    IN  starts[n] + 2 * notes[n].duration + 1

\* The last call rendered a non-empty note list.
Rendered ==
    /\ call.op \in {"notes_to_tab", "convert"}
    /\ ~ ret.raised
    /\ ret.notes # <<>>

\* C8: the six tab lines have the same length 2 + sum(2 * duration); the
\* fret text of the k-th note starts at column 1 + sum(2 * duration of the
\* notes before it) of display row 5 - string, the rows being labelled e, B,
\* G, D, A, E from the top; column 0 and every cell no note writes are '-'.
C8_TabLayout ==
    Rendered =>
        LET notes  == ret.notes
            text   == ret.text
            starts == StartColumns(notes)
            width  == TabWidth(notes)
            rows   == TabLines(text)
            Covered(r, c) ==
                \E k \in 1..Len(notes) :
                    /\ r = 5 - notes[k].string
                    /\ c >= starts[k]
                    /\ c < starts[k] + Len(str(notes[k].fret))
        IN  /\ Cardinality(Newlines(text)) = 10
            /\ \A r \in 0..5 :
                 /\ Len(rows[r + 1]) = width + 3
                 /\ rows[r + 1][1] = RowLabels[r + 1]
                 /\ rows[r + 1][2] = "|"
                 /\ rows[r + 1][width + 3] = "|"
                 /\ Cell(rows, r, 0) = "-"
                 /\ \A c \in 0..(width - 1) :
                      ~ Covered(r, c) => Cell(rows, r, c) = "-"
            /\ \A k \in 1..Len(notes) :
                 Cell(rows, 5 - notes[k].string, starts[k]) = str(notes[k].fret)[1]

\* notes_to_tab has rendered two hand-built notes on different strings, the
\* first of duration 2 and the second with a fret text longer than the
\* room left: string 0 is on the row labelled E, at the bottom.
C8_Witness ==
    /\ call.op = "notes_to_tab"
    /\ Len(ret.notes) = 2
    /\ ret.notes[1] = GuitarNote(0, 1000, 2)
    /\ ret.notes[2] = GuitarNote(5, 1000, 1)
    /\ Cell(TabLines(ret.text), 5, 1) = "1"
    /\ Cell(TabLines(ret.text), 0, 5) = "1"
    /\ TabLine(ret.text, 5)[1] = "E"
    /\ \E i \in 1..Len(ret.writes) : ~ ret.writes[i].written

\* The last call was convert and rendered notes of a generator (the melodic
\* one with root_fret in 0..12, or the power chord one).
GeneratedAndRendered ==
    /\ call.op = "convert"
    /\ ~ ret.raised
    /\ ret.notes # <<>>
    /\ call.use_power_chords \/ self.root_fret \in 0..12

\* C10: when generated notes are rendered, no character of a fret number is
\* dropped and no cell is written twice, so every fret number stands
\* complete in the tab.
C10_NoTruncationNoOverlap ==
    GeneratedAndRendered =>
        LET notes  == ret.notes
            text   == ret.text
            writes == ret.writes
            starts == StartColumns(notes)
            width  == TabWidth(notes)
            rows   == TabLines(text)
        IN  /\ \A i \in 1..Len(writes) :
                 /\ writes[i].written
                 /\ writes[i].col < width
            /\ \A i, j \in 1..Len(writes) :
                 i < j => <<writes[i].row, writes[i].col>> # <<writes[j].row, writes[j].col>>
            /\ \A k \in 1..Len(notes) :
                 /\ Cardinality({i \in 1..Len(writes) : writes[i].note = k - 1})
                        = Len(str(notes[k].fret))
                 /\ \A c \in 1..Len(str(notes[k].fret)) :
                      Cell(rows, 5 - notes[k].string, starts[k] + c - 1)
                          = str(notes[k].fret)[c]

\* convert has rendered generated notes where a fret of two characters and
\* duration 1 is followed by another note on the same string, and the last
\* note has a fret of two characters and duration 1.
C10_Witness ==
    /\ GeneratedAndRendered
    /\ \E k \in 1..(Len(ret.notes) - 1) :
         /\ ret.notes[k].fret >= 10
         /\ ret.notes[k].duration = 1
         /\ ret.notes[k + 1].string = ret.notes[k].string
    /\ LET last == ret.notes[Len(ret.notes)]
       IN  last.fret >= 10 /\ last.duration = 1

----------------------------------------------------------------------------
(* Properties of concurrent calls.                                         *)

\* A step leaves the converter's attributes and the scale table as they are.
ConfigUnchanged == self' = self /\ SCALES' = SCALES

\* A step changes the frame of one thread at most: what a call keeps in its
\* local variables is neither written nor replaced by another call.
OneFrameChanges ==
    \E t \in Threads : \A u \in Threads \ {t} : frames'[u] = frames[u]

\* After a step, every call that has returned has returned the text the
\* same call returns when it runs alone, from start to end, on the
\* converter; and a call that raised raises when it runs alone.
SameAsAlone ==
    \A t \in Threads :
        LET f == frames'[t]
            alone == convert(self', f.barcode, f.use_power_chords)
        IN  /\ f.pc = "returned" => (~ alone.raised /\ f.text = alone.text)
            /\ f.pc = "raised" => alone.raised

C7_WitnessReturned ==
    /\ frames[1].pc = "returned"
    /\ Len(frames[1].notes) > 4
    /\ frames[2].pc = "place_notes"
    /\ frames[2].k >= 1
    /\ frames[2].k < Len(frames[2].notes)

=============================================================================
